---------------------------- MODULE Spec2Model ----------------------------
(***************************************************************************)
(* A model of pointless (github.com/mickamy/pointless): the analyzer pass  *)
(* of analyzer/analyzer.go, the configuration loader of config/config.go   *)
(* and the command's main function.                                        *)
(*                                                                         *)
(* The analyzed package is the input.  It is a sequence of files; a file   *)
(* is a name, a list of comments and the list of its syntax nodes in the   *)
(* order inspector.Preorder visits them.  Strings (comment texts, paths,   *)
(* glob patterns) are sequences of tokens, a token standing for a run of   *)
(* characters that the code never splits.                                  *)
(***************************************************************************)
EXTENDS Integers, Sequences, FiniteSets, TLC

VARIABLES
    pc,                \* position in main / run
    cfgFile,           \* input: what the configuration file holds
    argThreshold,      \* input: value of an explicit -threshold flag, 0 if none
    files,             \* input: the analyzed package (pass.Files)
    warned,            \* main printed the "failed to load config" warning
    threshold,         \* analyzer.threshold
    excludePatterns,   \* analyzer.excludePatterns
    excludedFiles,     \* run: excludedFiles
    nolintLines,       \* run: nolintLines
    nilReturns,        \* run: nilReturns (set of FuncDecl ids)
    receiverMutations, \* run: receiverMutations (set of FuncDecl ids)
    nilUsages,         \* run: nilUsages (set of positions)
    idx,               \* run: number of nodes the final Preorder has visited
    diags              \* pass.Reportf calls so far, in order

vars == <<pc, cfgFile, argThreshold, files, warned, threshold, excludePatterns,
          excludedFiles, nolintLines, nilReturns, receiverMutations, nilUsages,
          idx, diags>>

\* ------------------------------------------------------------------------
\* Sequences
\* ------------------------------------------------------------------------

Range(s) == {s[i] : i \in 1..Len(s)}

RECURSIVE Concat(_)
Concat(ss) == IF ss = <<>> THEN <<>> ELSE Head(ss) \o Concat(Tail(ss))

RECURSIVE SeqsUpTo(_, _)
\* All sequences over S of length at most n.
SeqsUpTo(S, n) ==
    IF n = 0 THEN {<<>>}
    ELSE LET shorter == SeqsUpTo(S, n - 1)
         IN  shorter \cup {Append(s, x) : s \in shorter, x \in S}

\* ------------------------------------------------------------------------
\* Types and their sizes (go/types, as used by sizeOf)
\* ------------------------------------------------------------------------

WordSize == 8
MaxAlign == 8

Basic(n, sz)  == [k |-> "Basic", name |-> n, size |-> sz]
StringT       == [k |-> "String"]
PointerT      == [k |-> "Pointer"]
SliceT        == [k |-> "Slice"]
MapT          == [k |-> "Map"]
ChanT         == [k |-> "Chan"]
InterfaceT    == [k |-> "Interface"]
ArrayT(n, e)  == [k |-> "Array", len |-> n, elem |-> e]
StructT(fs)   == [k |-> "Struct", fields |-> fs]
\* A defined (named) type and its underlying type.
Named(n, u)   == [k |-> "Named", name |-> n, under |-> u]
\* No entry in pass.TypesInfo.Types.
NoType        == [k |-> "None"]

Bool  == Basic("bool", 1)
Byte  == Basic("byte", 1)
Int32 == Basic("int32", 4)
Int64 == Basic("int64", 8)

Underlying(t) == IF t.k = "Named" THEN t.under ELSE t

align(x, a) == ((x + a - 1) \div a) * a

Max(a, b) == IF a > b THEN a ELSE b

RECURSIVE Sizeof(_), Alignof(_), OffsetEnd(_, _), MaxFieldAlign(_)

\* Offset just past field i of the field list fs (0 for i = 0): each field
\* goes to the next offset aligned to its own alignment.
OffsetEnd(fs, i) ==
    IF i = 0 THEN 0
    ELSE align(OffsetEnd(fs, i - 1), Alignof(fs[i])) + Sizeof(fs[i])

MaxFieldAlign(fs) ==
    IF fs = <<>> THEN 1 ELSE Max(Alignof(Head(fs)), MaxFieldAlign(Tail(fs)))

Alignof(t) ==
    LET u == Underlying(t) IN
    CASE u.k = "Array"  -> Alignof(u.elem)
      [] u.k = "Struct" -> MaxFieldAlign(u.fields)
      [] u.k \in {"Slice", "Interface", "String"} -> WordSize
      [] OTHER -> LET a == Sizeof(u)
                  IN  IF a < 1 THEN 1 ELSE IF a > MaxAlign THEN MaxAlign ELSE a

Sizeof(t) ==
    LET u == Underlying(t) IN
    CASE u.k = "Basic"     -> u.size
      [] u.k = "String"    -> WordSize * 2
      [] u.k = "Array"     -> IF u.len <= 0 THEN 0 ELSE Sizeof(u.elem) * u.len
      [] u.k = "Slice"     -> WordSize * 3
      [] u.k = "Struct"    -> IF u.fields = <<>> THEN 0
                              ELSE align(OffsetEnd(u.fields, Len(u.fields)),
                                         Alignof(u))
      [] u.k = "Interface" -> WordSize * 2
      [] OTHER             -> WordSize

RECURSIVE PackedSizeof(_)
\* A size that lays the fields of a struct out without padding.
PackedSizeof(t) ==
    LET u == Underlying(t) IN
    IF u.k = "Struct"
    THEN IF u.fields = <<>> THEN 0
         ELSE PackedSizeof(Head(u.fields)) + PackedSizeof(StructT(Tail(u.fields)))
    ELSE Sizeof(u)

sizeOf(t) == Sizeof(t)

\* ------------------------------------------------------------------------
\* Strings (package strings), on token sequences
\* ------------------------------------------------------------------------

\* The white space strings.TrimSpace removes, as far as it occurs here.
Space == {" ", "\t", "\n"}

HasPrefix(s, p) == Len(s) >= Len(p) /\ SubSeq(s, 1, Len(p)) = p
HasSuffix(s, p) == Len(s) >= Len(p) /\ SubSeq(s, Len(s) - Len(p) + 1, Len(s)) = p
TrimPrefix(s, p) == IF HasPrefix(s, p) THEN SubSeq(s, Len(p) + 1, Len(s)) ELSE s
TrimSuffix(s, p) == IF HasSuffix(s, p) THEN SubSeq(s, 1, Len(s) - Len(p)) ELSE s

RECURSIVE TrimLeft(_), TrimRight(_)
TrimLeft(s) ==
    IF s # <<>> /\ Head(s) \in Space THEN TrimLeft(Tail(s)) ELSE s
TrimRight(s) ==
    IF s # <<>> /\ s[Len(s)] \in Space
    THEN TrimRight(SubSeq(s, 1, Len(s) - 1)) ELSE s
TrimSpace(s) == TrimRight(TrimLeft(s))

RECURSIVE SplitFrom(_, _, _)
\* strings.Split(s, sep) for a one-token separator; cur is the piece begun.
SplitFrom(s, sep, cur) ==
    IF s = <<>> THEN <<cur>>
    ELSE IF Head(s) = sep THEN <<cur>> \o SplitFrom(Tail(s), sep, <<>>)
    ELSE SplitFrom(Tail(s), sep, Append(cur, Head(s)))
Split(s, sep) == SplitFrom(s, sep, <<>>)

\* ------------------------------------------------------------------------
\* Suppression comments
\* ------------------------------------------------------------------------

\* A test that takes nolint as blanket only when nothing follows it.
isNolintCommentBareOnly(text) ==
    LET rest    == TrimPrefix(text, <<"nolint">>)
        linters == TrimPrefix(rest, <<":">>)
        scoped  == /\ rest # <<>>
                   /\ rest[1] = ":"
                   /\ \E l \in Range(Split(linters, ",")) :
                          TrimSpace(l) = <<"pointless">>
    IN  \/ HasPrefix(text, <<"nolint">>) /\ (rest = <<>> \/ scoped)
        \/ HasPrefix(text, <<"pointless", ":", "ignore">>)

\* isNolintComment: does the stripped comment text ask to skip pointless.
isNolintComment(text) ==
    LET rest    == TrimPrefix(text, <<"nolint">>)
        linters == TrimPrefix(rest, <<":">>)
        blanket == rest = <<>> \/ rest[1] = " " \/ rest[1] = "\t"
        scoped  == /\ rest # <<>>
                   /\ rest[1] = ":"
                   /\ \E l \in Range(Split(linters, ",")) :
                          TrimSpace(l) = <<"pointless">>
    IN  \/ HasPrefix(text, <<"nolint">>) /\ (blanket \/ (~blanket /\ scoped))
        \/ HasPrefix(text, <<"pointless", ":", "ignore">>)

\* The text buildNolintMap hands to isNolintComment: c.Text without its
\* comment markers and surrounding white space.
StripComment(raw) ==
    LET t == IF HasPrefix(raw, <<"//">>) THEN TrimPrefix(raw, <<"//">>)
             ELSE IF HasPrefix(raw, <<"/*">>)
                  THEN TrimSuffix(TrimPrefix(raw, <<"/*">>), <<"*/">>)
                  ELSE raw
    IN  TrimSpace(t)

\* ------------------------------------------------------------------------
\* File exclusion (path/filepath)
\* ------------------------------------------------------------------------

RECURSIVE Match(_, _)
\* filepath.Match for patterns of literals and "*": a "*" matches any run
\* of tokens that holds no separator.
Match(pattern, name) ==
    IF pattern = <<>> THEN name = <<>>
    ELSE IF Head(pattern) = "*"
         THEN \E n \in 0..Len(name) :
                  /\ \A i \in 1..n : name[i] # "/"
                  /\ Match(Tail(pattern), SubSeq(name, n + 1, Len(name)))
         ELSE /\ name # <<>>
              /\ Head(name) = Head(pattern)
              /\ Match(Tail(pattern), Tail(name))

\* filepath.Base of a path that does not end in a separator.
Base(path) ==
    LET seps == {i \in 1..Len(path) : path[i] = "/"}
        last == IF seps = {} THEN 0 ELSE CHOOSE i \in seps : \A j \in seps : j <= i
    IN  SubSeq(path, last + 1, Len(path))

\* A test that matches the patterns against the full path only.
shouldExcludeFullPath(path, patterns) ==
    \E i \in 1..Len(patterns) : Match(patterns[i], path)

shouldExclude(path, patterns) ==
    \E i \in 1..Len(patterns) :
        \/ Match(patterns[i], path)
        \/ Match(patterns[i], Base(path))

\* ------------------------------------------------------------------------
\* Syntax (go/ast) with the facts the type checker and the parser attach
\* ------------------------------------------------------------------------

\* token.Pos: the file (its index in pass.Files), the line and the column.
Pos(f, l, c) == [file |-> f, line |-> l, col |-> c]
\* token.NoPos; also stands for a nil types.Object and a nil ast.Object.
NoPos == Pos(0, 0, 0)

\* An identifier.  uses and defs are pass.TypesInfo.Uses and .Defs of it and
\* obj is ident.Obj, each object given by the position of its declaring
\* identifier (types.Object.Pos, ast.Object.Pos), NoPos when nil.
Ident(n, u, d, o) ==
    [e |-> "Ident", name |-> n, uses |-> u, defs |-> d, obj |-> o]
Def(n, p)   == Ident(n, NoPos, p, p)   \* the identifier that declares p
Use(n, p)   == Ident(n, p, NoPos, p)   \* a use of the object declared at p
Nil         == Ident("nil", NoPos, NoPos, NoPos)
Other       == [e |-> "Other"]
Sel(x)      == [e |-> "SelectorExpr", x |-> x]
Index(x)    == [e |-> "IndexExpr", x |-> x]
Star(x)     == [e |-> "StarExpr", x |-> x]
Paren(x)    == [e |-> "ParenExpr", x |-> x]
Call(f, as) == [e |-> "CallExpr", fun |-> f, args |-> as]
FuncLit     == [e |-> "FuncLit"]
\* A type expression with its entry in pass.TypesInfo.Types.
TypeExpr(t)          == [e |-> "Type", type |-> t]
StarTo(t, p)         == [e |-> "StarExpr", x |-> TypeExpr(t), pos |-> p]
ArrayType(n, elt, p) == [e |-> "ArrayType", len |-> n, elt |-> elt, pos |-> p]
SliceOf(elt, p)      == ArrayType(FALSE, elt, p)
NoExpr               == [e |-> "None"]

\* Nodes.  A node below a declaration also records where it stands: fn is
\* the FuncDecl whose body holds it (NoPos at package level), and for a
\* ReturnStmt lit tells whether a function literal lies between the two.
Field(names, type) == [names |-> names, type |-> type]
FuncDecl(p, recv, results) ==
    [kind |-> "FuncDecl", pos |-> p, recv |-> recv, results |-> results]
ReturnStmt(p, results, fn, lit) ==
    [kind |-> "ReturnStmt", pos |-> p, results |-> results, fn |-> fn, lit |-> lit]
AssignStmt(p, fn, tok, lhs, rhs) ==
    [kind |-> "AssignStmt", pos |-> p, fn |-> fn, tok |-> tok, lhs |-> lhs, rhs |-> rhs]
IncDecStmt(p, fn, x) == [kind |-> "IncDecStmt", pos |-> p, fn |-> fn, x |-> x]
BinaryExpr(p, fn, op, x, y) ==
    [kind |-> "BinaryExpr", pos |-> p, fn |-> fn, op |-> op, x |-> x, y |-> y]
ValueSpec(names, type) == [names |-> names, type |-> type]
GenDecl(p, fn, tok, specs) ==
    [kind |-> "GenDecl", pos |-> p, fn |-> fn, tok |-> tok, specs |-> specs]

\* isNil: the identifier nil.
isNil(expr) == expr.e = "Ident" /\ expr.name = "nil"

\* The nodes of the package in the order the inspector visits them.
AllNodes == Concat([i \in 1..Len(files) |-> files[i].nodes])

\* pass.Fset.File(p).Name()
FileName(p) == files[p.file].name

\* ------------------------------------------------------------------------
\* The trackers
\* ------------------------------------------------------------------------

RECURSIVE NilReturnsFrom(_, _, _)
\* The callback of findNilReturns over the nodes left, with currentFunc and
\* result as they stand.
NilReturnsFrom(nodes, currentFunc, result) ==
    IF nodes = <<>> THEN result
    ELSE LET node == Head(nodes) IN
         CASE node.kind = "FuncDecl" ->
                  NilReturnsFrom(Tail(nodes), node.pos, result)
           [] node.kind = "ReturnStmt" ->
                  IF /\ currentFunc # NoPos
                     /\ \E i \in 1..Len(node.results) : isNil(node.results[i])
                  THEN NilReturnsFrom(Tail(nodes), currentFunc,
                                      result \cup {currentFunc})
                  ELSE NilReturnsFrom(Tail(nodes), currentFunc, result)
           [] OTHER -> NilReturnsFrom(Tail(nodes), currentFunc, result)

RECURSIVE FirstResultNilFrom(_, _, _)
\* A tracker that looks at the first result of a return statement only.
FirstResultNilFrom(nodes, currentFunc, result) ==
    IF nodes = <<>> THEN result
    ELSE LET node == Head(nodes) IN
         CASE node.kind = "FuncDecl" ->
                  FirstResultNilFrom(Tail(nodes), node.pos, result)
           [] node.kind = "ReturnStmt" ->
                  IF /\ currentFunc # NoPos
                     /\ node.results # <<>>
                     /\ isNil(node.results[1])
                  THEN FirstResultNilFrom(Tail(nodes), currentFunc,
                                          result \cup {currentFunc})
                  ELSE FirstResultNilFrom(Tail(nodes), currentFunc, result)
           [] OTHER -> FirstResultNilFrom(Tail(nodes), currentFunc, result)

findNilReturnsFirstResult == FirstResultNilFrom(AllNodes, NoPos, {})

findNilReturns == NilReturnsFrom(AllNodes, NoPos, {})

\* The name written where the receiver receiverObj is declared.
ReceiverNameOf(receiverObj) ==
    LET ds == {n \in Range(AllNodes) :
                  /\ n.kind = "FuncDecl"
                  /\ n.recv # <<>>
                  /\ n.recv[1].names # <<>>
                  /\ n.recv[1].names[1].defs = receiverObj}
    IN  IF ds = {} THEN "" ELSE (CHOOSE n \in ds : TRUE).recv[1].names[1].name

RECURSIVE refersToReceiverByName(_, _)
\* A resolution that goes by the text of the name, not by the object.
refersToReceiverByName(expr, receiverObj) ==
    CASE expr.e = "Ident" -> expr.name = ReceiverNameOf(receiverObj)
      [] expr.e \in {"SelectorExpr", "IndexExpr", "StarExpr"} ->
             refersToReceiverByName(expr.x, receiverObj)
      [] OTHER -> FALSE

RECURSIVE refersToReceiver(_, _)
refersToReceiver(expr, receiverObj) ==
    CASE expr.e = "Ident" -> expr.uses = receiverObj
      [] expr.e \in {"SelectorExpr", "IndexExpr", "StarExpr"} ->
             refersToReceiver(expr.x, receiverObj)
      [] OTHER -> FALSE

\* The receiver object findReceiverMutations takes from a FuncDecl.
ReceiverObj(node) ==
    IF node.recv # <<>> /\ node.recv[1].names # <<>>
    THEN node.recv[1].names[1].defs
    ELSE NoPos

RECURSIVE MutationsFrom(_, _, _, _)
MutationsFrom(nodes, currentFunc, receiverObj, result) ==
    IF nodes = <<>> THEN result
    ELSE LET node == Head(nodes)
             live == currentFunc # NoPos /\ receiverObj # NoPos
         IN
         CASE node.kind = "FuncDecl" ->
                  MutationsFrom(Tail(nodes), node.pos, ReceiverObj(node), result)
           [] node.kind = "AssignStmt" ->
                  IF /\ live
                     /\ \E i \in 1..Len(node.lhs) :
                            refersToReceiver(node.lhs[i], receiverObj)
                  THEN MutationsFrom(Tail(nodes), currentFunc, receiverObj,
                                     result \cup {currentFunc})
                  ELSE MutationsFrom(Tail(nodes), currentFunc, receiverObj, result)
           [] node.kind = "IncDecStmt" ->
                  IF live /\ refersToReceiver(node.x, receiverObj)
                  THEN MutationsFrom(Tail(nodes), currentFunc, receiverObj,
                                     result \cup {currentFunc})
                  ELSE MutationsFrom(Tail(nodes), currentFunc, receiverObj, result)
           [] OTHER -> MutationsFrom(Tail(nodes), currentFunc, receiverObj, result)

findReceiverMutations == MutationsFrom(AllNodes, NoPos, NoPos, {})

\* The object findNilUsages records for an operand v[i]: ident.Obj.Pos() when
\* the operand indexes an identifier the parser resolved, else nothing.
IndexedObj(expr) ==
    IF /\ expr.e = "IndexExpr"
       /\ expr.x.e = "Ident"
       /\ expr.x.obj # NoPos
    THEN {expr.x.obj} ELSE {}

\* What one node adds to the result of findNilUsages.
NilUsagesOf(node) ==
    CASE node.kind = "BinaryExpr" ->
             IF node.op \in {"==", "!="}
             THEN (IF isNil(node.y) THEN IndexedObj(node.x) ELSE {})
                  \cup (IF isNil(node.x) THEN IndexedObj(node.y) ELSE {})
             ELSE {}
      [] node.kind = "AssignStmt" ->
             UNION {IF i <= Len(node.rhs) /\ isNil(node.rhs[i])
                    THEN IndexedObj(node.lhs[i]) ELSE {} : i \in 1..Len(node.lhs)}
      [] OTHER -> {}

findNilUsages == UNION {NilUsagesOf(AllNodes[i]) : i \in 1..Len(AllNodes)}

\* buildNolintMap: the line of every matching comment and the line after it.
NolintLinesOf(f) ==
    UNION {IF isNolintComment(StripComment(f.comments[i].text))
           THEN {f.comments[i].line, f.comments[i].line + 1}
           ELSE {} : i \in 1..Len(f.comments)}

buildNolintMap == UNION {NolintLinesOf(files[f]) : f \in 1..Len(files)}

\* ------------------------------------------------------------------------
\* The rules.  Each check is the sequence of pass.Reportf calls it makes.
\* ------------------------------------------------------------------------

DefaultThreshold == 1024

\* One report: its category, the position given to Reportf, the node of the
\* final Preorder it was made for, and the two numbers of its message.
Diag(cat, p, node, size) ==
    [cat |-> cat, pos |-> p, node |-> node.pos, size |-> size,
     threshold |-> threshold]

IsStruct(t) == Underlying(t).k = "Struct"

\* A size test that also turns away a struct of exactly the threshold.
TooLargeOrEqual(size) == size >= threshold

\* size > int64(threshold): the struct is too large.
TooLarge(size) == size > threshold

checkMethodReceiver(fn) ==
    LET recv == fn.recv[1]
        star == recv.type
    IN  IF star.e # "StarExpr" THEN <<>>
        ELSE IF fn.pos \in receiverMutations THEN <<>>
        ELSE IF star.x.type.k = "None" THEN <<>>
        ELSE IF TooLarge(sizeOf(star.x.type)) THEN <<>>
        ELSE <<Diag("PointerReceiver", fn.pos, fn, sizeOf(star.x.type))>>

\* A check that reports a pointer result at the declaration, not at the
\* result.
checkPointerReturnAtFunc(fn, star) ==
    IF fn.pos \in nilReturns THEN <<>>
    ELSE IF star.x.type.k = "None" THEN <<>>
    ELSE IF ~IsStruct(star.x.type) THEN <<>>
    ELSE IF TooLarge(sizeOf(star.x.type)) THEN <<>>
    ELSE <<Diag("PointerReturn", fn.pos, fn, sizeOf(star.x.type))>>

checkPointerReturn(fn, star) ==
    IF fn.pos \in nilReturns THEN <<>>
    ELSE IF star.x.type.k = "None" THEN <<>>
    ELSE IF ~IsStruct(star.x.type) THEN <<>>
    ELSE IF TooLarge(sizeOf(star.x.type)) THEN <<>>
    ELSE <<Diag("PointerReturn", star.pos, fn, sizeOf(star.x.type))>>

\* The part of checkSliceReturn, checkGenDecl and checkAssignStmt that
\* follows their exemption test: the element type behind star decides.
SliceElemReport(cat, node, arr, star) ==
    IF star.x.type.k = "None" THEN <<>>
    ELSE IF ~IsStruct(star.x.type) THEN <<>>
    ELSE IF TooLarge(sizeOf(star.x.type)) THEN <<>>
    ELSE <<Diag(cat, arr.pos, node, sizeOf(star.x.type))>>

checkSliceReturn(fn, arr) ==
    IF arr.len THEN <<>>
    ELSE IF arr.elt.e # "StarExpr" THEN <<>>
    ELSE IF fn.pos \in nilReturns THEN <<>>
    ELSE SliceElemReport("PointerSequenceReturn", fn, arr, arr.elt)

checkReturnType(fn) ==
    Concat([i \in 1..Len(fn.results) |->
              LET t == fn.results[i].type IN
              CASE t.e = "StarExpr"  -> checkPointerReturn(fn, t)
                [] t.e = "ArrayType" -> checkSliceReturn(fn, t)
                [] OTHER -> <<>>])

checkFuncDecl(fn) ==
    (IF fn.recv # <<>> THEN checkMethodReceiver(fn) ELSE <<>>)
    \o checkReturnType(fn)

\* The body of checkGenDecl's loop for one spec.
checkValueSpec(decl, vs) ==
    LET arr == vs.type
        hasNilUsage == \E i \in 1..Len(vs.names) :
                           /\ vs.names[i].defs # NoPos
                           /\ vs.names[i].defs \in nilUsages
    IN  IF arr.e # "ArrayType" THEN <<>>
        ELSE IF arr.len THEN <<>>
        ELSE IF arr.elt.e # "StarExpr" THEN <<>>
        ELSE IF hasNilUsage THEN <<>>
        ELSE SliceElemReport("PointerSequenceVariable", decl, arr, arr.elt)

checkGenDecl(decl) ==
    IF decl.tok # "var" THEN <<>>
    ELSE Concat([i \in 1..Len(decl.specs) |-> checkValueSpec(decl, decl.specs[i])])

\* The body of checkAssignStmt's loop for the i-th right-hand side.
checkAssignRhs(stmt, i) ==
    LET call == stmt.rhs[i]
        isMake == /\ call.e = "CallExpr"
                  /\ call.fun.e = "Ident"
                  /\ call.fun.name = "make"
                  /\ Len(call.args) >= 1
        arr == call.args[1]
        hasNilUsage == /\ i <= Len(stmt.lhs)
                       /\ stmt.lhs[i].e = "Ident"
                       /\ stmt.lhs[i].defs # NoPos
                       /\ stmt.lhs[i].defs \in nilUsages
    IN  IF ~isMake THEN <<>>
        ELSE IF arr.e # "ArrayType" THEN <<>>
        ELSE IF arr.len THEN <<>>
        ELSE IF arr.elt.e # "StarExpr" THEN <<>>
        ELSE IF hasNilUsage THEN <<>>
        ELSE SliceElemReport("PointerSequenceVariable", stmt, arr, arr.elt)

checkAssignStmt(stmt) ==
    IF stmt.tok # ":=" THEN <<>>
    ELSE Concat([i \in 1..Len(stmt.rhs) |-> checkAssignRhs(stmt, i)])

\* The nodes the final Preorder of run visits (its nodeFilter).
Checked ==
    SelectSeq(AllNodes, LAMBDA n : n.kind \in {"FuncDecl", "GenDecl", "AssignStmt"})

\* Whether run's callback returns early for node n.
Skipped(n) == FileName(n.pos) \in excludedFiles \/ n.pos.line \in nolintLines

\* The switch of run's callback.
Check(n) ==
    CASE n.kind = "FuncDecl"   -> checkFuncDecl(n)
      [] n.kind = "GenDecl"    -> checkGenDecl(n)
      [] n.kind = "AssignStmt" -> checkAssignStmt(n)

\* The callback of run's final Preorder.
Visit(n) == IF Skipped(n) THEN <<>> ELSE Check(n)

\* ------------------------------------------------------------------------
\* Configuration (package config) and main
\* ------------------------------------------------------------------------

DefaultConfig == [Threshold |-> DefaultThreshold, Exclude |-> <<>>]

\* A key of the YAML document: absent, of a value that decodes into the
\* field ("ok") or of one that does not ("bad").
Absent     == [kind |-> "absent", val |-> 0]
Good(v)    == [kind |-> "ok", val |-> v]
BadValue   == [kind |-> "bad", val |-> 0]

Decoded(key, old) == IF key.kind = "ok" THEN key.val ELSE old

\* yaml.Unmarshal(data, &cfg): a document that does not parse leaves cfg
\* alone; one that parses is decoded key by key, a value of the wrong type
\* is skipped and reported once decoding has gone through the document.
Unmarshal(data, cfg) ==
    IF ~data.syntaxOK THEN [cfg |-> cfg, err |-> TRUE]
    ELSE [cfg |-> [Threshold |-> Decoded(data.threshold, cfg.Threshold),
                   Exclude   |-> Decoded(data.exclude, cfg.Exclude)],
          err |-> data.threshold.kind = "bad" \/ data.exclude.kind = "bad"]

\* config.Load.  cf.state: "nocwd" (os.Getwd fails), "none" (no file found),
\* "unreadable" (os.ReadFile fails) or "present".
Load(cf) ==
    CASE cf.state = "nocwd"      -> [cfg |-> DefaultConfig, err |-> TRUE]
      [] cf.state = "none"       -> [cfg |-> DefaultConfig, err |-> FALSE]
      [] cf.state = "unreadable" -> [cfg |-> DefaultConfig, err |-> TRUE]
      [] OTHER                   -> Unmarshal(cf, DefaultConfig)

\* The value of the threshold flag once main has rewritten os.Args and the
\* flags are parsed: an explicit flag wins, then a positive configured
\* value, then the flag's default.
FlagThreshold(cfg) ==
    IF argThreshold # 0 THEN argThreshold
    ELSE IF cfg.Threshold > 0 THEN cfg.Threshold
    ELSE DefaultThreshold

\* ------------------------------------------------------------------------
\* Actions
\* ------------------------------------------------------------------------

inputs == <<cfgFile, argThreshold, files>>
trackers == <<excludedFiles, nolintLines, nilReturns, receiverMutations, nilUsages>>

\* main: load the configuration, warn on failure, hand the threshold and the
\* exclude patterns to the analyzer, start the checker.
Main ==
    /\ pc = "main"
    /\ LET r == Load(cfgFile) IN
         /\ warned' = r.err
         /\ threshold' = FlagThreshold(r.cfg)
         /\ excludePatterns' = r.cfg.Exclude
    /\ pc' = "run"
    /\ UNCHANGED <<inputs, trackers, idx, diags>>

\* run: the set of excluded files.
RunExclude ==
    /\ pc = "run"
    /\ excludedFiles' =
           IF Len(excludePatterns) > 0
           THEN {files[f].name : f \in {g \in 1..Len(files) :
                                   shouldExclude(files[g].name, excludePatterns)}}
           ELSE {}
    /\ pc' = "nolint"
    /\ UNCHANGED <<inputs, warned, threshold, excludePatterns, nolintLines,
                   nilReturns, receiverMutations, nilUsages, idx, diags>>

RunNolint ==
    /\ pc = "nolint"
    /\ nolintLines' = buildNolintMap
    /\ pc' = "nilReturns"
    /\ UNCHANGED <<inputs, warned, threshold, excludePatterns, excludedFiles,
                   nilReturns, receiverMutations, nilUsages, idx, diags>>

RunNilReturns ==
    /\ pc = "nilReturns"
    /\ nilReturns' = findNilReturns
    /\ pc' = "mutations"
    /\ UNCHANGED <<inputs, warned, threshold, excludePatterns, excludedFiles,
                   nolintLines, receiverMutations, nilUsages, idx, diags>>

RunReceiverMutations ==
    /\ pc = "mutations"
    /\ receiverMutations' = findReceiverMutations
    /\ pc' = "nilUsages"
    /\ UNCHANGED <<inputs, warned, threshold, excludePatterns, excludedFiles,
                   nolintLines, nilReturns, nilUsages, idx, diags>>

RunNilUsages ==
    /\ pc = "nilUsages"
    /\ nilUsages' = findNilUsages
    /\ pc' = "check"
    /\ UNCHANGED <<inputs, warned, threshold, excludePatterns, excludedFiles,
                   nolintLines, nilReturns, receiverMutations, idx, diags>>

\* One call of the callback of run's final Preorder.
RunVisit ==
    /\ pc = "check"
    /\ idx < Len(Checked)
    /\ diags' = diags \o Visit(Checked[idx + 1])
    /\ idx' = idx + 1
    /\ UNCHANGED <<pc, inputs, warned, threshold, excludePatterns, trackers>>

\* run returns.
RunReturn ==
    /\ pc = "check"
    /\ idx = Len(Checked)
    /\ pc' = "done"
    /\ UNCHANGED <<inputs, warned, threshold, excludePatterns, trackers, idx, diags>>

Next ==
    \/ Main
    \/ RunExclude
    \/ RunNolint
    \/ RunNilReturns
    \/ RunReceiverMutations
    \/ RunNilUsages
    \/ RunVisit
    \/ RunReturn

\* ------------------------------------------------------------------------
\* Inputs: declarations to analyze
\* ------------------------------------------------------------------------

\* The types of testdata/src/a/a.go, and a defined type that is no struct.
SmallStruct == Named("SmallStruct", StructT(<<Int64, StringT, Int32, Bool>>))
LargeStruct == Named("LargeStruct",
                     StructT(<<ArrayT(512, Byte), ArrayT(512, Byte), ArrayT(512, Byte)>>))
MyInt       == Named("MyInt", Int64)

\* Lines between the first lines of two declarations of a file.
Stride == 6
DeclLine(i) == 2 + (i - 1) * Stride

\* The nodes of one declaration written at line L of file f, with T the
\* type it points to.  Functions return, methods have the receiver s.
Sample(name, f, L, T) ==
    LET fn   == Pos(f, L, 1)
        rcv  == Pos(f, L, 7)
        s    == Use("s", rcv)
        ptr  == Field(<<>>, StarTo(T, Pos(f, L, 20)))
        slc  == Field(<<>>, SliceOf(StarTo(T, Pos(f, L, 22)), Pos(f, L, 20)))
        str  == Field(<<>>, TypeExpr(StringT))
        recv == <<Field(<<Def("s", rcv)>>, StarTo(T, Pos(f, L, 9)))>>
        func(results)   == FuncDecl(fn, <<>>, results)
        method(results) == FuncDecl(fn, recv, results)
        ret(l, results) == ReturnStmt(Pos(f, l, 2), results, fn, FALSE)
        set(l, lhs, rhs) == AssignStmt(Pos(f, l, 2), fn, "=", lhs, rhs)
        make(l)  == Call(Ident("make", NoPos, NoPos, NoPos),
                         <<SliceOf(StarTo(T, Pos(f, l, 18)), Pos(f, l, 16)), Other>>)
        items    == Pos(f, L + 1, 6)
        varItems == GenDecl(Pos(f, L + 1, 2), fn, "var",
                        <<ValueSpec(<<Def("items", items)>>,
                                    SliceOf(StarTo(T, Pos(f, L + 1, 14)), Pos(f, L + 1, 12)))>>)
        mkItems  == AssignStmt(Pos(f, L + 1, 6), fn, ":=", <<Def("items", items)>>, <<make(L + 1)>>)
        at0      == Index(Use("items", items))
    IN
    CASE \* func F() *T { return &T{} }
         name = "GetStruct" -> <<func(<<ptr>>), ret(L + 1, <<Other>>)>>
         \* func F(id int) *T { if id == 0 { return nil }; return &T{} }
      [] name = "FindStruct" ->
             <<func(<<ptr>>), ret(L + 1, <<Nil>>), ret(L + 2, <<Other>>)>>
         \* func F() *T { return g(nil) }
      [] name = "NestedNil" ->
             <<func(<<ptr>>), ret(L + 1, <<Call(Other, <<Nil>>)>>)>>
         \* func F() *T { g := func() *T { return nil }; return g() }
      [] name = "LitNil" ->
             <<func(<<ptr>>),
               AssignStmt(Pos(f, L + 1, 2), fn, ":=", <<Def("g", Pos(f, L + 1, 2))>>, <<FuncLit>>),
               ReturnStmt(Pos(f, L + 1, 20), <<Nil>>, fn, TRUE),
               ret(L + 2, <<Other>>)>>
         \* func F() (*T, error) { return &T{}, nil }
      [] name = "ErrNil" ->
             <<func(<<ptr, Field(<<>>, TypeExpr(InterfaceT))>>), ret(L + 1, <<Other, Nil>>)>>
         \* func F() []*T { return []*T{} }
      [] name = "GetStructs" -> <<func(<<slc>>), ret(L + 1, <<Other>>)>>
         \* func F() []*T { return nil }
      [] name = "FindStructs" -> <<func(<<slc>>), ret(L + 1, <<Nil>>)>>
         \* func F() [4]*T { ... }
      [] name = "GetArray" ->
             <<func(<<Field(<<>>, ArrayType(TRUE, StarTo(T, Pos(f, L, 23)), Pos(f, L, 20)))>>),
               ret(L + 1, <<Other>>)>>
         \* func F() []T { ... }
      [] name = "GetValues" ->
             <<func(<<Field(<<>>, SliceOf(TypeExpr(T), Pos(f, L, 20)))>>), ret(L + 1, <<Other>>)>>
         \* func F() *MyInt { ... }
      [] name = "GetIntPtr" ->
             <<func(<<Field(<<>>, StarTo(MyInt, Pos(f, L, 20)))>>), ret(L + 1, <<Other>>)>>
         \* func F() (*T, *T) { ... }
      [] name = "TwoResults" ->
             <<func(<<ptr, Field(<<>>, StarTo(T, Pos(f, L, 24)))>>), ret(L + 1, <<Other, Other>>)>>
         \* func F() (
         \*     *T,
         \*     []*T,
         \* ) { ... }
      [] name = "SplitResults" ->
             <<func(<<Field(<<>>, StarTo(T, Pos(f, L + 1, 2))),
                      Field(<<>>, SliceOf(StarTo(T, Pos(f, L + 2, 4)), Pos(f, L + 2, 2)))>>),
               ret(L + 4, <<Other, Other>>)>>
         \* func (s *T) M() string { return s.Name }
      [] name = "FullName" -> <<method(<<str>>), ret(L + 1, <<Sel(s)>>)>>
         \* func (s *T) M() *T { return s }
      [] name = "Self" -> <<method(<<Field(<<>>, StarTo(T, Pos(f, L, 30)))>>), ret(L + 1, <<s>>)>>
         \* func (s *T) M(n string) { s.Name = n }
      [] name = "SetName" -> <<method(<<>>), set(L + 1, <<Sel(s)>>, <<Other>>)>>
         \* func (s *T) M() { s.Age++ }
      [] name = "IncrementAge" -> <<method(<<>>), IncDecStmt(Pos(f, L + 1, 2), fn, Sel(s))>>
         \* func (s *T) M(n string) { (*s).Name = n }
      [] name = "ParenSet" -> <<method(<<>>), set(L + 1, <<Sel(Paren(Star(s)))>>, <<Other>>)>>
         \* func (s *T) M() { (*s).Age++ }
      [] name = "ParenInc" -> <<method(<<>>), IncDecStmt(Pos(f, L + 1, 2), fn, Sel(Paren(Star(s))))>>
         \* func (s *T) M() { *s = T{} }
      [] name = "StarSet" -> <<method(<<>>), set(L + 1, <<Star(s)>>, <<Other>>)>>
         \* func (s *T) M() { s.Tags[0] = "x" }
      [] name = "IndexSet" -> <<method(<<>>), set(L + 1, <<Index(Sel(s))>>, <<Other>>)>>
         \* func (s *T) M() { s = nil }
      [] name = "Rebind" -> <<method(<<>>), set(L + 1, <<s>>, <<Nil>>)>>
         \* func (s *T) M() { n, s.Age = 1, 2 }
      [] name = "SecondLhs" -> <<method(<<>>), set(L + 1, <<Other, Sel(s)>>, <<Other, Other>>)>>
         \* func (s *T) M() { if true { s := T{}; s.Name = "x" } }
      [] name = "Shadow" ->
             <<method(<<>>),
               AssignStmt(Pos(f, L + 1, 12), fn, ":=", <<Def("s", Pos(f, L + 1, 12))>>, <<Other>>),
               AssignStmt(Pos(f, L + 1, 22), fn, "=", <<Sel(Use("s", Pos(f, L + 1, 12)))>>, <<Other>>)>>
         \* func (s T) M() string { return s.Name }
      [] name = "ValueRecv" ->
             <<FuncDecl(fn, <<Field(<<Def("s", rcv)>>, TypeExpr(T))>>, <<str>>),
               ret(L + 1, <<Sel(s)>>)>>
         \* func (*T) M() string { return "" }
      [] name = "Unnamed" ->
             <<FuncDecl(fn, <<Field(<<>>, StarTo(T, Pos(f, L, 7)))>>, <<str>>),
               ret(L + 1, <<Other>>)>>
         \* func (s *MyInt) M() string { return "" }
      [] name = "IntRecv" ->
             <<FuncDecl(fn, <<Field(<<Def("s", rcv)>>, StarTo(MyInt, Pos(f, L, 9)))>>, <<str>>),
               ret(L + 1, <<Other>>)>>
         \* func f() { var items []*T }
      [] name = "VarDecl" -> <<func(<<>>), varItems>>
         \* func f() {
         \*     var (
         \*         a []*T
         \*         b []*T
         \*     )
         \* }
      [] name = "VarBlock" ->
             <<func(<<>>),
               GenDecl(Pos(f, L + 1, 2), fn, "var",
                   <<ValueSpec(<<Def("a", Pos(f, L + 2, 3))>>,
                               SliceOf(StarTo(T, Pos(f, L + 2, 7)), Pos(f, L + 2, 5))),
                     ValueSpec(<<Def("b", Pos(f, L + 3, 3))>>,
                               SliceOf(StarTo(T, Pos(f, L + 3, 7)), Pos(f, L + 3, 5)))>>)>>
         \* func f() { type local int }
      [] name = "TypeDecl" -> <<func(<<>>), GenDecl(Pos(f, L + 1, 2), fn, "type", <<>>)>>
         \* func f() { items := make([]*T, 10) }
      [] name = "MakeSlice" -> <<func(<<>>), mkItems>>
         \* func f() { var items []*T; items = make([]*T, 10) }
      [] name = "PlainAssign" ->
             <<func(<<>>), varItems, set(L + 2, <<Use("items", items)>>, <<make(L + 2)>>)>>
         \* func f() { a, b := make([]*T, 1), make([]*T, 1) }
      [] name = "MakeTwo" ->
             <<func(<<>>),
               AssignStmt(Pos(f, L + 1, 2), fn, ":=",
                   <<Def("a", Pos(f, L + 1, 2)), Def("b", Pos(f, L + 1, 5))>>,
                   <<make(L + 1), Call(Ident("make", NoPos, NoPos, NoPos),
                        <<SliceOf(StarTo(T, Pos(f, L + 1, 38)), Pos(f, L + 1, 36)), Other>>)>>)>>
         \* func f() { items := make([]*T, 10); if items[0] == nil { } }
      [] name = "NilCompare" ->
             <<func(<<>>), mkItems, BinaryExpr(Pos(f, L + 2, 5), fn, "==", at0, Nil)>>
         \* func f() { items := make([]*T, 10); if nil != items[0] { } }
      [] name = "NilCompareRev" ->
             <<func(<<>>), mkItems, BinaryExpr(Pos(f, L + 2, 5), fn, "!=", Nil, at0)>>
         \* func f() { items := make([]*T, 10); items[0] = nil }
      [] name = "NilAssign" ->
             <<func(<<>>), mkItems, set(L + 2, <<at0>>, <<Nil>>)>>
         \* func f() { var items []*T; if items[0] == nil { } }
      [] name = "VarNilCompare" ->
             <<func(<<>>), varItems, BinaryExpr(Pos(f, L + 2, 5), fn, "==", at0, Nil)>>
         \* func f() { items := make([]*T, 10); if items == nil { } }
      [] name = "WholeNilCompare" ->
             <<func(<<>>), mkItems,
               BinaryExpr(Pos(f, L + 2, 5), fn, "==", Use("items", items), Nil)>>
         \* func f() {
         \*     var items []*T
         \*     items, n := make([]*T, 1), 0
         \*     if items[0] == nil { }
         \* }
      [] name = "Redeclare" ->
             <<func(<<>>), varItems,
               AssignStmt(Pos(f, L + 2, 2), fn, ":=",
                   <<Use("items", items), Def("n", Pos(f, L + 2, 9))>>,
                   <<make(L + 2), Other>>),
               BinaryExpr(Pos(f, L + 3, 5), fn, "==", at0, Nil)>>
         \* var h = func() *T { return nil }
      [] name = "PkgLitNil" ->
             <<GenDecl(fn, NoPos, "var", <<ValueSpec(<<Def("h", Pos(f, L, 5))>>, NoExpr)>>),
               ReturnStmt(Pos(f, L, 25), <<Nil>>, NoPos, TRUE)>>
         \* var all []*T
      [] name = "PkgVar" ->
             <<GenDecl(fn, NoPos, "var",
                   <<ValueSpec(<<Def("all", Pos(f, L, 5))>>,
                               SliceOf(StarTo(T, Pos(f, L, 11)), Pos(f, L, 9)))>>)>>

FuncSamples ==
    {"GetStruct", "FindStruct", "NestedNil", "LitNil", "ErrNil", "GetStructs",
     "FindStructs", "GetArray", "GetValues", "GetIntPtr", "TwoResults",
     "SplitResults"}
MethodSamples ==
    {"FullName", "Self", "SetName", "IncrementAge", "ParenSet", "ParenInc",
     "StarSet", "IndexSet", "Rebind", "SecondLhs", "Shadow", "ValueRecv",
     "Unnamed", "IntRecv"}
VarSamples ==
    {"VarDecl", "VarBlock", "TypeDecl", "MakeSlice", "PlainAssign", "MakeTwo",
     "NilCompare", "NilCompareRev", "NilAssign", "VarNilCompare",
     "WholeNilCompare", "Redeclare", "PkgVar"}
Samples == FuncSamples \cup MethodSamples \cup VarSamples

\* The declarations names, in this order, of file f.
RECURSIVE DeclsFrom(_, _, _, _)
DeclsFrom(names, f, i, T) ==
    IF names = <<>> THEN <<>>
    ELSE Sample(Head(names), f, DeclLine(i), T) \o DeclsFrom(Tail(names), f, i + 1, T)

File(path, comments, names, f, T) ==
    [name |-> path, comments |-> comments, nodes |-> DeclsFrom(names, f, 1, T)]

PathA     == <<"/", "pkg", "/", "a", ".go">>
PathATest == <<"/", "pkg", "/", "a", "_test", ".go">>
PathB     == <<"/", "pkg", "/", "b", ".go">>
PathGen   == <<"/", "pkg", "/", "gen", "/", "b", ".go">>

NoConfigFile ==
    [state |-> "none", syntaxOK |-> TRUE, threshold |-> Absent, exclude |-> Absent]

\* The state when main starts, for the given inputs.
Start(cf, arg, fs) ==
    /\ pc = "main"
    /\ cfgFile = cf
    /\ argThreshold = arg
    /\ files = fs
    /\ warned = FALSE
    /\ threshold = DefaultThreshold
    /\ excludePatterns = <<>>
    /\ excludedFiles = {}
    /\ nolintLines = {}
    /\ nilReturns = {}
    /\ receiverMutations = {}
    /\ nilUsages = {}
    /\ idx = 0
    /\ diags = <<>>

\* Packages of one file: any sample declaration, alone or followed by a
\* second declaration, over a small and a large struct, with the -threshold
\* flag absent or set around the two sizes.
Followers == {<<>>, <<"PkgLitNil">>, <<"GetStruct">>}
Thresholds == {0, 31, 32, 1536}

Init ==
    \E d \in Samples, more \in Followers, T \in {SmallStruct, LargeStruct},
       arg \in Thresholds :
        Start(NoConfigFile, arg, <<File(PathA, <<>>, <<d>> \o more, 1, T)>>)

Spec == Init /\ [][Next]_vars

\* Packages of two files with one comment somewhere in them: the first file
\* holds one declaration at line 2, the second a function at line 2.
MaxCommentLine == 5

Comment(l, text) == [line |-> l, text |-> text]

CommentTexts ==
    { <<"//", "nolint">>,
      <<"//", " ", "nolint">>,
      <<"//", "nolint", " ", "//", " ", "reason">>,
      <<"//", "nolint", "\t", "reason">>,
      <<"//", "nolint", ":", "pointless">>,
      <<"/*", " ", "nolint", ":", "pointless", " ", "*/">>,
      <<"//", "nolint", ":", "other", ",", "pointless">>,
      <<"//", " ", "nolint", ":", "other", ",", " ", "pointless", " ", ",", "more">>,
      <<"//", "nolint", ":", "other">>,
      <<"//", "nolint", ":", "other", ",", "pointlessly">>,
      <<"//", "nolint", "lint">>,
      <<"//", "pointless", ":", "ignore">>,
      <<"//", "pointless", ":", "ignore", "d">>,
      <<"//", " ", "pointless", ":", "ignore", " ", "reason">>,
      <<"//", " ", "reason">> }

NolintDecls == {"GetStruct", "SplitResults", "Self", "FullName", "VarBlock", "MakeSlice"}

InitNolint ==
    \E d \in NolintDecls, f \in 1..2, l \in 1..MaxCommentLine, text \in CommentTexts :
        LET cs(g) == IF g = f THEN <<Comment(l, text)>> ELSE <<>> IN
        Start(NoConfigFile, 0,
              <<File(PathA, cs(1), <<d>>, 1, SmallStruct),
                File(PathB, cs(2), <<"GetStruct">>, 2, SmallStruct)>>)

SpecNolint == InitNolint /\ [][Next]_vars

\* Packages of two files under a configuration file that lists exclude
\* patterns.
MaxPatterns == 2

Paths == {PathA, PathATest, PathB, PathGen}

Patterns ==
    { <<"*", "_test", ".go">>,
      <<"b", ".go">>,
      <<"*">>,
      <<"/", "pkg", "/", "*">>,
      <<"/", "pkg", "/", "gen", "/", "*">>,
      <<"gen", "/", "*">> }

ExcludeDecls == {"GetStruct", "MakeSlice"}

InitExclude ==
    \E p1 \in Paths, p2 \in Paths, d \in ExcludeDecls,
       ps \in SeqsUpTo(Patterns, MaxPatterns) :
        /\ p1 # p2
        /\ Start([state |-> "present", syntaxOK |-> TRUE,
                  threshold |-> Absent, exclude |-> Good(ps)], 0,
                 <<File(p1, <<>>, <<d>>, 1, SmallStruct),
                   File(p2, <<>>, <<"Self">>, 2, SmallStruct)>>)

SpecExclude == InitExclude /\ [][Next]_vars

\* Every outcome of loading the configuration, with and without an explicit
\* -threshold flag.
ConfigFiles ==
    { [state |-> st, syntaxOK |-> TRUE, threshold |-> Absent, exclude |-> Absent] :
          st \in {"nocwd", "none", "unreadable"} }
    \cup
    [state : {"present"}, syntaxOK : BOOLEAN,
     threshold : {Absent, Good(0), Good(16), Good(2048), BadValue},
     exclude : {Absent, Good(<<>>), Good(<<<<"*", "_test", ".go">>>>), BadValue}]

InitConfig ==
    \E cf \in ConfigFiles, arg \in {0, 31} :
        Start(cf, arg,
              <<File(PathA, <<>>, <<"GetStruct">>, 1, SmallStruct),
                File(PathATest, <<>>, <<"MakeSlice">>, 2, SmallStruct)>>)

SpecConfig == InitConfig /\ [][Next]_vars

\* One function returning a pointer to a struct, over every struct of up to
\* MaxFields fields, under a -threshold flag no such struct exceeds.
MaxFields == 3

FieldTypes ==
    {Bool, Int32, Int64, StringT, PointerT, SliceT, MapT, ChanT,
     ArrayT(512, Byte), ArrayT(3, Int32)}

StructTypes ==
    {Named("T", StructT(fs)) : fs \in SeqsUpTo(FieldTypes, MaxFields) \ {<<>>}}
    \cup {SmallStruct, LargeStruct}

InitSize ==
    \E T \in StructTypes :
        Start(NoConfigFile, (MaxFields + 1) * 512,
              <<File(PathA, <<>>, <<"GetStruct">>, 1, T)>>)

SpecSize == InitSize /\ [][Next]_vars

\* ------------------------------------------------------------------------
\* What the claims speak of
\* ------------------------------------------------------------------------

DiagSet == Range(diags)

HasDiag(cat, p) == \E d \in DiagSet : d.cat = cat /\ d.pos = p

\* The reports of the given categories made for the node at p.
DiagsFor(p, cats) == {i \in 1..Len(diags) : diags[i].node = p /\ diags[i].cat \in cats}

NodesOfKind(k) == {n \in Range(AllNodes) : n.kind = k}

\* A type expression *T, and []*T, with T a struct type.
PtrToStruct(t) ==
    /\ t.e = "StarExpr"
    /\ t.x.e = "Type"
    /\ t.x.type.k # "None"
    /\ Underlying(t.x.type).k = "Struct"
SliceOfPtrToStruct(t) ==
    /\ t.e = "ArrayType"
    /\ ~t.len
    /\ PtrToStruct(t.elt)
\* make([]*T, ...) with T a struct type.
MakesPtrSlice(x) ==
    /\ x.e = "CallExpr"
    /\ x.fun.e = "Ident"
    /\ x.fun.name = "make"
    /\ Len(x.args) >= 1
    /\ SliceOfPtrToStruct(x.args[1])

\* The variable an identifier stands for, declared here or before.
Binding(id) == IF id.defs # NoPos THEN id.defs ELSE id.uses

\* C1: with everything else a rule asks for in place, the rule reports iff
\* the size of the struct is at most the threshold.
C1_FlaggedIffWithinThreshold ==
    pc = "done" =>
    \A n \in Range(Checked) :
        ~Skipped(n) =>
        /\ n.kind = "FuncDecl" =>
             /\ \A i \in 1..Len(n.results) :
                    LET t == n.results[i].type IN
                    /\ (PtrToStruct(t) /\ n.pos \notin nilReturns) =>
                           (HasDiag("PointerReturn", t.pos)
                               <=> sizeOf(t.x.type) <= threshold)
                    /\ (SliceOfPtrToStruct(t) /\ n.pos \notin nilReturns) =>
                           (HasDiag("PointerSequenceReturn", t.pos)
                               <=> sizeOf(t.elt.x.type) <= threshold)
             /\ (/\ n.recv # <<>>
                 /\ PtrToStruct(n.recv[1].type)
                 /\ n.pos \notin receiverMutations) =>
                    (HasDiag("PointerReceiver", n.pos)
                        <=> sizeOf(n.recv[1].type.x.type) <= threshold)
        /\ (n.kind = "GenDecl" /\ n.tok = "var") =>
             \A i \in 1..Len(n.specs) :
                 LET vs == n.specs[i] IN
                 (/\ SliceOfPtrToStruct(vs.type)
                  /\ \A j \in 1..Len(vs.names) : Binding(vs.names[j]) \notin nilUsages) =>
                     (HasDiag("PointerSequenceVariable", vs.type.pos)
                         <=> sizeOf(vs.type.elt.x.type) <= threshold)
        /\ (n.kind = "AssignStmt" /\ n.tok = ":=") =>
             \A i \in 1..Len(n.rhs) :
                 (/\ MakesPtrSlice(n.rhs[i])
                  /\ i <= Len(n.lhs)
                  /\ n.lhs[i].e = "Ident"
                  /\ Binding(n.lhs[i]) \notin nilUsages) =>
                     (HasDiag("PointerSequenceVariable", n.rhs[i].args[1].pos)
                         <=> sizeOf(n.rhs[i].args[1].elt.x.type) <= threshold)

\* A report was made for a struct whose size is exactly the threshold.
C1_Witness == pc = "done" /\ \E d \in DiagSet : d.size = threshold

\* A return statement in the body of fn has nil among its results.
ReturnsNil(fn) ==
    \E r \in NodesOfKind("ReturnStmt") :
        r.fn = fn.pos /\ \E i \in 1..Len(r.results) : r.results[i] = Nil

\* C2: a declaration with a return statement that has nil as a direct
\* operand gets no PointerReturn and no PointerSequenceReturn report.
C2_NilReturnExempts ==
    \A fn \in NodesOfKind("FuncDecl") :
        ReturnsNil(fn) =>
            DiagsFor(fn.pos, {"PointerReturn", "PointerSequenceReturn"}) = {}

\* The run is over for a declaration that returns nil, is not skipped and
\* has a pointer or pointer-slice result small enough to be reported.
C2_Witness ==
    /\ pc = "done"
    /\ \E fn \in NodesOfKind("FuncDecl") :
           /\ ReturnsNil(fn)
           /\ ~Skipped(fn)
           /\ \E i \in 1..Len(fn.results) :
                  LET t == fn.results[i].type IN
                  \/ PtrToStruct(t) /\ sizeOf(t.x.type) <= threshold
                  \/ SliceOfPtrToStruct(t) /\ sizeOf(t.elt.x.type) <= threshold

RECURSIVE ReachesReceiver(_, _)
\* expr is the receiver or is reached from it by field access, indexing and
\* dereference.
ReachesReceiver(expr, recv) ==
    CASE expr.e = "Ident" -> expr.uses = recv
      [] expr.e \in {"SelectorExpr", "IndexExpr", "StarExpr", "ParenExpr"} ->
             ReachesReceiver(expr.x, recv)
      [] OTHER -> FALSE

\* The body of method fn assigns to, increments or decrements something
\* reached from its receiver.
MutatesReceiver(fn) ==
    /\ fn.recv # <<>>
    /\ fn.recv[1].names # <<>>
    /\ LET recv == fn.recv[1].names[1].defs IN
       \/ \E a \in NodesOfKind("AssignStmt") :
              a.fn = fn.pos /\ \E i \in 1..Len(a.lhs) : ReachesReceiver(a.lhs[i], recv)
       \/ \E a \in NodesOfKind("IncDecStmt") :
              a.fn = fn.pos /\ ReachesReceiver(a.x, recv)

\* C3: a method with a pointer receiver that mutates through its receiver,
\* by whatever path of field access, index and dereference, gets no
\* PointerReceiver report.
C3_MutatingMethodNotFlagged ==
    \A fn \in NodesOfKind("FuncDecl") :
        (/\ fn.recv # <<>>
         /\ fn.recv[1].type.e = "StarExpr"
         /\ MutatesReceiver(fn)) =>
            DiagsFor(fn.pos, {"PointerReceiver"}) = {}

\* v[i] with v an identifier: the variable v, else nothing.
IndexedVar(expr) ==
    IF expr.e = "IndexExpr" /\ expr.x.e = "Ident" THEN {Binding(expr.x)} ELSE {}

\* The variables that somewhere appear as v[i] == nil, v[i] != nil, either
\* way round, or as v[i] = nil.
NilBearing ==
    UNION ({IF b.op \in {"==", "!="}
            THEN (IF b.y = Nil THEN IndexedVar(b.x) ELSE {})
                 \cup (IF b.x = Nil THEN IndexedVar(b.y) ELSE {})
            ELSE {} : b \in NodesOfKind("BinaryExpr")}
           \cup
           {UNION {IF i <= Len(a.rhs) /\ a.rhs[i] = Nil
                   THEN IndexedVar(a.lhs[i]) ELSE {} : i \in 1..Len(a.lhs)} :
               a \in NodesOfKind("AssignStmt")})

\* The variables a PointerSequenceVariable report is about: the names of the
\* spec, or the left-hand side of the make call, its position names.
VarsOfDiag(d) ==
    UNION {CASE n.kind = "GenDecl" ->
                    UNION {IF n.specs[i].type.e = "ArrayType" /\ n.specs[i].type.pos = d.pos
                           THEN {Binding(n.specs[i].names[j]) : j \in 1..Len(n.specs[i].names)}
                           ELSE {} : i \in 1..Len(n.specs)}
             [] n.kind = "AssignStmt" ->
                    UNION {IF /\ MakesPtrSlice(n.rhs[i])
                              /\ n.rhs[i].args[1].pos = d.pos
                              /\ i <= Len(n.lhs)
                              /\ n.lhs[i].e = "Ident"
                           THEN {Binding(n.lhs[i])} ELSE {} : i \in 1..Len(n.rhs)}
             [] OTHER -> {} : n \in {m \in Range(Checked) : m.pos = d.node}}

\* C4: a slice variable compared with nil or set to nil through an index
\* gets no PointerSequenceVariable report, however it is introduced.
C4_NilBearingNotFlagged ==
    \A d \in DiagSet :
        d.cat = "PointerSequenceVariable" => VarsOfDiag(d) \cap NilBearing = {}

\* C7 as stated: at most one report for a declaration and a category.
C7_OnePerDeclarationAndCategory ==
    \A i, j \in 1..Len(diags) :
        (diags[i].node = diags[j].node /\ diags[i].cat = diags[j].cat) => i = j

\* The entries of node n a report can be about, each by the position the
\* report is given: the results of a function and the function itself for
\* its receiver, the specs of a var declaration, the right-hand sides of :=.
Entries(n) ==
    CASE n.kind = "FuncDecl" ->
             {n.pos} \cup {n.results[i].type.pos :
                              i \in {j \in 1..Len(n.results) :
                                        n.results[j].type.e \in {"StarExpr", "ArrayType"}}}
      [] n.kind = "GenDecl" ->
             {n.specs[i].type.pos :
                  i \in {j \in 1..Len(n.specs) : n.specs[j].type.e = "ArrayType"}}
      [] n.kind = "AssignStmt" ->
             {n.rhs[i].args[1].pos : i \in {j \in 1..Len(n.rhs) : MakesPtrSlice(n.rhs[j])}}

\* C7, amended: every report is about one entry of its declaration (a
\* result, the receiver, a spec, a right-hand side), and an entry gets at
\* most one report of a category.
C7_OnePerEntryAndCategory ==
    /\ \A d \in DiagSet :
           \E n \in Range(Checked) : n.pos = d.node /\ d.pos \in Entries(n)
    /\ \A i, j \in 1..Len(diags) :
           (diags[i].pos = diags[j].pos /\ diags[i].cat = diags[j].cat) => i = j

\* The run is over with two reports of one category for one declaration.
C7_Witness ==
    /\ pc = "done"
    /\ \E i, j \in 1..Len(diags) :
           i # j /\ diags[i].node = diags[j].node /\ diags[i].cat = diags[j].cat

Categories ==
    {"PointerReturn", "PointerReceiver", "PointerSequenceReturn",
     "PointerSequenceVariable"}

\* The pieces of a comma-separated list, trimmed.
Listed(list) == {TrimSpace(l) : l \in Range(Split(list, ","))}

\* The three comment forms, on the stripped text: nolint alone or followed
\* by a space or a tab, nolint: with pointless in its list, pointless:ignore.
SuppressingText(t) ==
    \/ t = <<"nolint">>
    \/ Len(t) >= 2 /\ t[1] = "nolint" /\ t[2] \in {" ", "\t"}
    \/ /\ Len(t) >= 2 /\ t[1] = "nolint" /\ t[2] = ":"
       /\ <<"pointless">> \in Listed(SubSeq(t, 3, Len(t)))
    \/ t = <<"pointless", ":", "ignore">>

\* nolint: with a list that does not name pointless.
OtherToolText(t) ==
    /\ Len(t) >= 2 /\ t[1] = "nolint" /\ t[2] = ":"
    /\ <<"pointless">> \notin Listed(SubSeq(t, 3, Len(t)))

CommentsOf(f) == Range(files[f].comments)

\* Comment c of file f stands on the first line of node n or on the line
\* above it.
OnOrAbove(f, c, n) == n.pos.file = f /\ c.line \in {n.pos.line - 1, n.pos.line}

Configured == IF cfgFile.exclude.kind = "ok" THEN cfgFile.exclude.val ELSE <<>>

\* The path or the bare file name matches a configured pattern.
MatchesConfigured(path) ==
    \E i \in 1..Len(Configured) :
        Match(Configured[i], path) \/ Match(Configured[i], Base(path))

\* C6: a file whose path or bare name matches a configured pattern has no
\* report positioned in it, and it is in the excluded set by the time the
\* first declaration is examined.
C6_ExcludedFileHasNoDiagnostics ==
    \A f \in 1..Len(files) :
        MatchesConfigured(files[f].name) =>
            /\ \A d \in DiagSet : d.pos.file # f
            /\ pc \in {"check", "done"} => files[f].name \in excludedFiles

\* The run is over for a file that only its bare name excludes and that
\* holds a declaration that would be reported.
C6_Witness ==
    /\ pc = "done"
    /\ \E f \in 1..Len(files) :
           /\ MatchesConfigured(files[f].name)
           /\ \A i \in 1..Len(Configured) : ~Match(Configured[i], files[f].name)
           /\ \E n \in Range(Checked) : n.pos.file = f /\ Check(n) # <<>>

\* C8: no report stands on a line that a matching comment of its file marks
\* (the comment's line and the line after it).
C8_NoDiagnosticOnSuppressedLine ==
    \A d \in DiagSet : d.pos.line \notin NolintLinesOf(files[d.pos.file])

\* The layout the claim describes, with a slice of sliceWords words: fields
\* in order, each at the next multiple of its alignment, the total rounded
\* up to the largest alignment.
RoundUp(x, a) == IF x % a = 0 THEN x ELSE x + (a - (x % a))

RECURSIVE LaySize(_, _), LayAlign(_, _), Place(_, _, _, _), Widest(_, _, _)

Place(fs, i, off, sliceWords) ==
    IF i > Len(fs) THEN off
    ELSE Place(fs, i + 1,
               RoundUp(off, LayAlign(fs[i], sliceWords)) + LaySize(fs[i], sliceWords),
               sliceWords)

Widest(fs, i, sliceWords) ==
    IF i > Len(fs) THEN 1
    ELSE Max(LayAlign(fs[i], sliceWords), Widest(fs, i + 1, sliceWords))

LayAlign(t, sliceWords) ==
    LET u == Underlying(t) IN
    CASE u.k = "Basic"  -> u.size
      [] u.k = "Array"  -> LayAlign(u.elem, sliceWords)
      [] u.k = "Struct" -> Widest(u.fields, 1, sliceWords)
      [] OTHER          -> 8

LaySize(t, sliceWords) ==
    LET u == Underlying(t) IN
    CASE u.k = "Basic"  -> u.size
      [] u.k = "String" -> 16
      [] u.k = "Slice"  -> 8 * sliceWords
      [] u.k \in {"Pointer", "Map", "Chan"} -> 8
      [] u.k = "Array"  -> LaySize(u.elem, sliceWords) * u.len
      [] u.k = "Struct" -> RoundUp(Place(u.fields, 1, 0, sliceWords),
                                   Widest(u.fields, 1, sliceWords))

\* The struct type a PointerReturn report is about.
ReportedType(d) ==
    LET fn == CHOOSE n \in NodesOfKind("FuncDecl") : n.pos = d.node
        i  == CHOOSE j \in 1..Len(fn.results) :
                  fn.results[j].type.e = "StarExpr" /\ fn.results[j].type.pos = d.pos
    IN  fn.results[i].type.x.type

ScenarioSizes(d) ==
    /\ ReportedType(d) = SmallStruct => d.size = 32
    /\ ReportedType(d) = LargeStruct => d.size = 1536

C10_LoadErrorMeansDefaults ==
    (pc # "main" /\ warned /\ argThreshold = 0) =>
        threshold = 1024 /\ excludePatterns = <<>>

\* C11: a method whose receiver points to a type that is no struct gets no
\* PointerReceiver report.
C11_ReceiverReportOnlyForStruct ==
    \A fn \in NodesOfKind("FuncDecl") :
        (/\ fn.recv # <<>>
         /\ fn.recv[1].type.e = "StarExpr"
         /\ ~PtrToStruct(fn.recv[1].type)) =>
            DiagsFor(fn.pos, {"PointerReceiver"}) = {}

\* The lines marked by the comments of the three forms.
LinesOfTheThreeForms ==
    UNION {UNION {IF SuppressingText(StripComment(c.text))
                  THEN {c.line, c.line + 1} ELSE {} : c \in CommentsOf(f)}
           : f \in 1..Len(files)}

\* C12: only a comment of one of the three forms (pointless:ignore being
\* the whole text) marks lines as suppressed.
C12_OnlyTheThreeFormsMark ==
    pc \notin {"main", "run", "nolint"} => nolintLines \subseteq LinesOfTheThreeForms

RECURSIVE RootOf(_)
\* The identifier a target starts from, through field access, index,
\* dereference and parentheses.
RootOf(expr) ==
    IF expr.e \in {"SelectorExpr", "IndexExpr", "StarExpr", "ParenExpr"}
    THEN RootOf(expr.x) ELSE expr

\* The targets of the assignments, increments and decrements in the body
\* of fn.
TargetsIn(fn) ==
    UNION {Range(a.lhs) : a \in {b \in NodesOfKind("AssignStmt") : b.fn = fn.pos}}
    \cup {a.x : a \in {b \in NodesOfKind("IncDecStmt") : b.fn = fn.pos}}

\* Method fn changes a local variable that bears the name of its receiver,
\* and nothing that is reached from the receiver.
MutatesOnlyShadow(fn) ==
    /\ fn.recv # <<>>
    /\ fn.recv[1].names # <<>>
    /\ LET r == fn.recv[1].names[1] IN
       /\ \E t \in TargetsIn(fn) :
              /\ t.e = "SelectorExpr"
              /\ RootOf(t).e = "Ident"
              /\ RootOf(t).name = r.name
              /\ Binding(RootOf(t)) # r.defs
       /\ \A t \in TargetsIn(fn) :
              RootOf(t).e = "Ident" => Binding(RootOf(t)) # r.defs

\* The receiver of fn points to a type of at most the threshold.
SmallPointerReceiver(fn) ==
    /\ fn.recv[1].type.e = "StarExpr"
    /\ fn.recv[1].type.x.type.k # "None"
    /\ sizeOf(fn.recv[1].type.x.type) <= threshold

\* C13: a method that changes only a local variable shadowing its receiver
\* is not marked as mutating its receiver, and is reported as a
\* PointerReceiver when the size allows and nothing skips it.
C13_ShadowingLocalIsNoMutation ==
    \A fn \in NodesOfKind("FuncDecl") :
        MutatesOnlyShadow(fn) =>
            /\ fn.pos \notin receiverMutations
            /\ (pc = "done" /\ ~Skipped(fn) /\ SmallPointerReceiver(fn)) =>
                   HasDiag("PointerReceiver", fn.pos)

\* The run is over and has reported a method that changes only a local
\* variable shadowing its receiver.
C13_Witness ==
    /\ pc = "done"
    /\ \E fn \in NodesOfKind("FuncDecl") :
           /\ MutatesOnlyShadow(fn)
           /\ SmallPointerReceiver(fn)
           /\ HasDiag("PointerReceiver", fn.pos)

\* C14: a comment counts for the nodes of its own file only: a node whose
\* file has no matching comment on its line or the line above is checked
\* and its reports are made, whatever the comments of the other files.
C14_CommentAffectsOwnFileOnly ==
    pc = "done" =>
        \A n \in Range(Checked) :
            (/\ FileName(n.pos) \notin excludedFiles
             /\ n.pos.line \notin NolintLinesOf(files[n.pos.file])
             /\ Check(n) # <<>>) =>
                DiagsFor(n.pos, Categories) # {}

\* A return statement of fn itself, outside any function literal, has nil
\* as a direct result.
OwnNilReturn(fn) ==
    \E r \in NodesOfKind("ReturnStmt") :
        r.fn = fn.pos /\ ~r.lit /\ \E i \in 1..Len(r.results) : r.results[i] = Nil

\* C15: only a nil return of the declaration itself marks it; a nil return
\* in a function literal, nested in it or following it at package level,
\* leaves its PointerReturn and PointerSequenceReturn reports in place.
C15_OnlyOwnNilReturnMarks ==
    \A fn \in NodesOfKind("FuncDecl") :
        ~OwnNilReturn(fn) =>
            /\ fn.pos \notin nilReturns
            /\ (pc = "done" /\ ~Skipped(fn)) =>
                   \A i \in 1..Len(fn.results) :
                       LET t == fn.results[i].type IN
                       /\ (PtrToStruct(t) /\ sizeOf(t.x.type) <= threshold) =>
                              HasDiag("PointerReturn", t.pos)
                       /\ (SliceOfPtrToStruct(t) /\ sizeOf(t.elt.x.type) <= threshold) =>
                              HasDiag("PointerSequenceReturn", t.pos)

=============================================================================
